---- MODULE Spec2Model ----
(***************************************************************************)
(* Model of umitkara/Trie-DS: the compressed radix trie of                 *)
(* src/radix_trie.py and the plain character trie of src/trie.py.          *)
(*                                                                         *)
(* A Python str is a sequence of characters; a character is one of the     *)
(* one-letter strings of Alphabet.  A node is the record the dataclass     *)
(* declares, [key_node, children], and children is the dict: a function    *)
(* whose domain holds the dict's keys (Python strings, hence sequences)    *)
(* and whose values are the edges [destination, label].  The structure is  *)
(* a tree without sharing, so the nested value is the object graph.        *)
(***************************************************************************)
EXTENDS Integers, Sequences, FiniteSets, TLC

VARIABLES root, prev, lastOp, lastWord, result, repeated, nops,
          troot, inserted, tlastOp, tword, tresult, tnops

rvars == <<root, prev, lastOp, lastWord, result, repeated, nops>>
tvars == <<troot, inserted, tlastOp, tword, tresult, tnops>>
vars == <<root, prev, lastOp, lastWord, result, repeated, nops,
          troot, inserted, tlastOp, tword, tresult, tnops>>

(***************************************************************************)
(* Bounds of the model.                                                    *)
(***************************************************************************)
\* longest word given to a radix trie operation
MaxLen == 3
\* number of insert/remove calls made on the radix trie
MaxOps == 3
\* longest word given to a radix trie operation when lookups are made
QueryMaxLen == 2
\* number of insert/remove calls made on the radix trie when lookups are made
QueryMaxOps == 2
\* longest word given to a plain trie operation
TrieMaxLen == 2
\* number of insert calls made on the plain trie
TrieMaxOps == 3

Alphabet == {"a", "b"}

RECURSIVE WordsOfLen(_)
WordsOfLen(n) ==
    IF n = 0 THEN {<<>>}
    ELSE {Append(w, c) : w \in WordsOfLen(n - 1), c \in Alphabet}

WordsUpTo(n) == UNION {WordsOfLen(k) : k \in 0..n}

Words == WordsUpTo(MaxLen)

QueryWords == WordsUpTo(QueryMaxLen)

TrieWords == WordsUpTo(TrieMaxLen)

(***************************************************************************)
(* Python string helpers.                                                  *)
(***************************************************************************)
\* word[:i]
Take(word, i) == SubSeq(word, 1, i)

\* word[i:]
Drop(word, i) == SubSeq(word, i + 1, Len(word))

\* word[0], a string of one character
First(word) == SubSeq(word, 1, 1)

(***************************************************************************)
(* The dataclasses and the dict operations used on children.               *)
(***************************************************************************)
RTEdge(destination, label) == [destination |-> destination, label |-> label]

RTNode(key_node, children) == [key_node |-> key_node, children |-> children]

\* {}
EmptyDict == [k \in {} |-> k]

\* d[k] = v
DictSet(d, k, v) == [x \in DOMAIN d \cup {k} |-> IF x = k THEN v ELSE d[x]]

\* d.pop(k)
DictPop(d, k) == [x \in DOMAIN d \ {k} |-> d[x]]

\* RadixTrie.__init__
NewRoot == RTNode(FALSE, EmptyDict)

(***************************************************************************)
(* _longestCommonPrefix and _matchEdge.                                    *)
(***************************************************************************)
RECURSIVE LcpLoop(_, _, _)
LcpLoop(word, edge, i) ==
    IF i < Len(word) /\ i < Len(edge) /\ word[i + 1] = edge[i + 1]
    THEN LcpLoop(word, edge, i + 1)
    ELSE i

_longestCommonPrefixWholeWord(word, edge) ==
    LET i == LcpLoop(word, edge, 0)
    IN  [prefix |-> Take(word, i),
         word_suffix |-> word,
         edge_suffix |-> Drop(edge, i)]

_longestCommonPrefix(word, edge) ==
    LET i == LcpLoop(word, edge, 0)
    IN  [prefix |-> Take(word, i),
         word_suffix |-> Drop(word, i),
         edge_suffix |-> Drop(edge, i)]

\* The tuple (edge, prefix, word_suffix, edge_suffix); found is
\* "edge is not None", and edges holds the edge when there is one.
_matchEdge(node, word) ==
    LET c == First(word)
    IN  IF c \notin DOMAIN node.children
        THEN [found |-> FALSE, edges |-> {}, prefix |-> <<>>,
              word_suffix |-> word, edge_suffix |-> <<>>]
        ELSE LET edge == node.children[c]
                 m == _longestCommonPrefix(word, edge.label)
             IN  [found |-> TRUE, edges |-> {edge}, prefix |-> m.prefix,
                  word_suffix |-> m.word_suffix,
                  edge_suffix |-> m.edge_suffix]

EdgeOf(m) == CHOOSE e \in m.edges : TRUE

(***************************************************************************)
(* search.  Its outcome is "True", "False", or "KeyError" when the dict    *)
(* lookup node.children[commonPrefix] finds no such key.  The operator     *)
(* returns the outcome together with the node as it is after the call.     *)
(***************************************************************************)
BoolStr(b) == IF b THEN "True" ELSE "False"

ReadKeyClearing(node) ==
    [node |-> [node EXCEPT !.key_node = FALSE],
     outcome |-> BoolStr(node.key_node)]

\* return node.key_node
ReadKey(node) == [node |-> node, outcome |-> BoolStr(node.key_node)]

RECURSIVE search(_, _)
search(node, word) ==
    IF word = <<>>
    THEN ReadKey(node)
    ELSE LET m == _matchEdge(node, word)
         IN  IF m.found /\ m.edge_suffix = <<>>
             THEN IF m.prefix \in DOMAIN node.children
                  THEN LET edge == node.children[m.prefix]
                           r == search(edge.destination, m.word_suffix)
                       IN  [node |-> [node EXCEPT
                                        !.children = DictSet(@, m.prefix,
                                           RTEdge(r.node, edge.label))],
                            outcome |-> r.outcome]
                  ELSE [node |-> node, outcome |-> "KeyError"]
             ELSE [node |-> node, outcome |-> "False"]

(***************************************************************************)
(* insert.  The method mutates the node it is given; the operator returns  *)
(* the node as it is after the call.                                       *)
(***************************************************************************)
MarkKeyToggle(node) == [node EXCEPT !.key_node = ~@]

\* node.key_node = True
MarkKey(node) == [node EXCEPT !.key_node = TRUE]

\* RTEdge(RTNode(True, {}), word)
LeafEdge(word) == RTEdge(RTNode(TRUE, EmptyDict), word)

\* bridge = RTNode(False, {}) with
\* bridge.children[edge_suffix[0]] = RTEdge(RTNode(False, {}), edge_suffix)
Bridge(edge_suffix) ==
    RTNode(FALSE,
           DictSet(EmptyDict, First(edge_suffix),
                   RTEdge(RTNode(FALSE, EmptyDict), edge_suffix)))

RECURSIVE insert(_, _)
insert(node, word) ==
    IF word = <<>>
    THEN MarkKey(node)
    ELSE LET m == _matchEdge(node, word)
         IN  IF ~m.found
             THEN [node EXCEPT
                     !.children = DictSet(@, First(word), LeafEdge(word))]
             ELSE IF m.edge_suffix = <<>>
             THEN [node EXCEPT
                     !.children = DictSet(@, First(word),
                        RTEdge(insert(EdgeOf(m).destination, m.word_suffix),
                               EdgeOf(m).label))]
             ELSE [node EXCEPT
                     !.children = DictSet(@, First(word),
                        RTEdge(insert(Bridge(m.edge_suffix), m.word_suffix),
                               m.prefix))]

(***************************************************************************)
(* remove, _isPassThrough, _getPassThroughEdge.  Remove returns the node   *)
(* as it is after the call together with the returned tuple.               *)
(***************************************************************************)
_isPassThrough(node, parent) ==
    node.key_node = FALSE /\ Cardinality(DOMAIN node.children) = 1

\* the first value of the dict; called only on a dict of one entry
_getPassThroughEdge(node) ==
    node.children[CHOOSE k \in DOMAIN node.children : TRUE]

MergeEdgeNoConcat(edge, next_edge) ==
    RTEdge(next_edge.destination, next_edge.label)

MergeEdgeSwapped(edge, next_edge) ==
    RTEdge(next_edge.destination, next_edge.label \o edge.label)

\* RTEdge(next_edge.destination, edge.label+next_edge.label)
MergeEdge(edge, next_edge) ==
    RTEdge(next_edge.destination, edge.label \o next_edge.label)

RECURSIVE remove(_, _)
remove(node, word) ==
    IF word = <<>>
    THEN [node |-> [node EXCEPT !.key_node = FALSE],
          deleted |-> TRUE,
          shouldPrune |-> Cardinality(DOMAIN node.children) = 0]
    ELSE LET m == _matchEdge(node, word)
         IN  IF m.found /\ m.edge_suffix = <<>>
             THEN LET edge == EdgeOf(m)
                      r == remove(edge.destination, m.word_suffix)
                      dest == r.node
                      \* the recursive call has mutated dest in place
                      node1 == [node EXCEPT
                                  !.children = DictSet(@, First(word),
                                                RTEdge(dest, edge.label))]
                      node2 ==
                        IF r.deleted
                        THEN IF r.shouldPrune
                             THEN [node1 EXCEPT
                                     !.children = DictPop(@, First(word))]
                             ELSE IF _isPassThrough(dest, node1)
                             THEN [node1 EXCEPT
                                     !.children = DictSet(@, First(word),
                                        MergeEdge(edge,
                                                  _getPassThroughEdge(dest)))]
                             ELSE node1
                        ELSE node1
                  IN  [node |-> node2, deleted |-> r.deleted,
                       shouldPrune |-> FALSE]
             ELSE [node |-> node, deleted |-> FALSE, shouldPrune |-> FALSE]

(***************************************************************************)
(* longestPrefix.                                                          *)
(***************************************************************************)
longestPrefix(word) == _longestCommonPrefix(word, word).prefix

(***************************************************************************)
(* searchNodeWithPrefix.  found is "the result is not None", dests holds   *)
(* the node returned when there is one, node is the node the call was      *)
(* given as it is after the call.                                          *)
(***************************************************************************)
PartialMatchNone(node, m) == [node |-> node, found |-> FALSE, dests |-> {}]

\* the last two branches: the edge is matched in part only
PartialMatch(node, m) ==
    IF m.word_suffix = <<>>
    THEN [node |-> node, found |-> TRUE, dests |-> {EdgeOf(m).destination}]
    ELSE [node |-> node, found |-> FALSE, dests |-> {}]

RECURSIVE searchNodeWithPrefix(_, _)
searchNodeWithPrefix(node, word) ==
    IF word = <<>>
    THEN [node |-> node, found |-> TRUE, dests |-> {node}]
    ELSE LET m == _matchEdge(node, word)
         IN  IF ~m.found
             THEN [node |-> node, found |-> FALSE, dests |-> {}]
             ELSE IF m.edge_suffix = <<>>
             THEN LET edge == EdgeOf(m)
                      r == searchNodeWithPrefix(edge.destination,
                                                m.word_suffix)
                  IN  [node |-> [node EXCEPT
                                   !.children = DictSet(@, First(word),
                                      RTEdge(r.node, edge.label))],
                       found |-> r.found, dests |-> r.dests]
             ELSE PartialMatch(node, m)

(***************************************************************************)
(* The plain trie of src/trie.py.  A TrieNode's children dict is kept as   *)
(* the sequence of its (letter, child) entries in insertion order, the     *)
(* order in which Python iterates a dict.                                  *)
(***************************************************************************)
TrieNode(is_word, children) == [is_word |-> is_word, children |-> children]

\* Trie.__init__
NewTrieRoot == TrieNode(FALSE, <<>>)

\* letter in node.children
TrieHas(node, letter) ==
    \E i \in 1..Len(node.children) : node.children[i].letter = letter

\* the position of letter among the entries of node.children
TrieIndex(node, letter) ==
    CHOOSE i \in 1..Len(node.children) : node.children[i].letter = letter

\* the loop of Trie.insert from the node it has reached, and the final
\* node.is_word = True
RECURSIVE Trie_insert(_, _)
Trie_insert(node, word) ==
    IF word = <<>>
    THEN [node EXCEPT !.is_word = TRUE]
    ELSE LET letter == Head(word)
             node1 == IF ~TrieHas(node, letter)
                      THEN [node EXCEPT !.children =
                              Append(@, [letter |-> letter,
                                         child |-> TrieNode(FALSE, <<>>)])]
                      ELSE node
             i == TrieIndex(node1, letter)
         IN  [node1 EXCEPT !.children[i].child = Trie_insert(@, Tail(word))]

PopLetterForgotten(temp_word) == temp_word

\* temp_word = temp_word[:-1]
PopLetter(temp_word) == SubSeq(temp_word, 1, Len(temp_word) - 1)

RECURSIVE get_words(_, _)
RECURSIVE GetWordsLoop(_, _, _, _)
\* the for loop of get_words from entry i on
GetWordsLoop(children, i, temp_word, words) ==
    IF i > Len(children)
    THEN words
    ELSE LET pushed == Append(temp_word, children[i].letter)
         IN  GetWordsLoop(children, i + 1, PopLetter(pushed),
                          words \o get_words(children[i].child, pushed))

get_words(node, prefix) ==
    GetWordsLoop(node.children, 1, prefix,
                 IF node.is_word THEN <<prefix>> ELSE <<>>)

\* the loop of keys_with_prefix over the letters left of the prefix
RECURSIVE KeysWithPrefixFrom(_, _, _)
KeysWithPrefixFrom(node, rest, prefix) ==
    IF rest = <<>>
    THEN get_words(node, prefix)
    ELSE IF ~TrieHas(node, Head(rest))
    THEN <<>>
    ELSE KeysWithPrefixFrom(node.children[TrieIndex(node, Head(rest))].child,
                            Tail(rest), prefix)

keys_with_prefix(node, prefix) == KeysWithPrefixFrom(node, prefix, prefix)

(***************************************************************************)
(* The state machine.  root is the radix trie, troot the plain trie.       *)
(* prev is the radix trie as it was when the last call was made, lastOp    *)
(* and lastWord the last call, result what it returned; repeated tells     *)
(* that the last call was an insert of the word the call before it had     *)
(* inserted.  inserted is the set of words given to Trie.insert so far.    *)
(***************************************************************************)
Init ==
    /\ root = NewRoot
    /\ prev = NewRoot
    /\ lastOp = "init"
    /\ lastWord = <<>>
    /\ result = "None"
    /\ repeated = FALSE
    /\ nops = 0
    /\ troot = NewTrieRoot
    /\ inserted = {}
    /\ tlastOp = "init"
    /\ tword = <<>>
    /\ tresult = <<>>
    /\ tnops = 0

\* trie.insert(trie.root, w)
DoInsert(w) ==
    /\ nops < MaxOps
    /\ root' = insert(root, w)
    /\ prev' = root
    /\ lastOp' = "insert"
    /\ lastWord' = w
    /\ result' = "None"
    /\ repeated' = (lastOp = "insert" /\ lastWord = w)
    /\ nops' = nops + 1
    /\ UNCHANGED tvars

\* trie.remove(trie.root, w)
DoRemove(w) ==
    /\ nops < MaxOps
    /\ LET r == remove(root, w)
       IN  /\ root' = r.node
           /\ result' = [deleted |-> r.deleted, shouldPrune |-> r.shouldPrune]
    /\ prev' = root
    /\ lastOp' = "remove"
    /\ lastWord' = w
    /\ repeated' = FALSE
    /\ nops' = nops + 1
    /\ UNCHANGED tvars

\* trie.search(trie.root, w)
DoSearch(w) ==
    /\ LET r == search(root, w)
       IN  /\ root' = r.node
           /\ result' = r.outcome
    /\ prev' = root
    /\ lastOp' = "search"
    /\ lastWord' = w
    /\ repeated' = FALSE
    /\ UNCHANGED nops
    /\ UNCHANGED tvars

\* trie.searchNodeWithPrefix(trie.root, w)
DoSearchNodeWithPrefix(w) ==
    /\ LET r == searchNodeWithPrefix(root, w)
       IN  /\ root' = r.node
           /\ result' = [found |-> r.found, dests |-> r.dests]
    /\ prev' = root
    /\ lastOp' = "searchNodeWithPrefix"
    /\ lastWord' = w
    /\ repeated' = FALSE
    /\ UNCHANGED nops
    /\ UNCHANGED tvars

\* trie.longestPrefix(w)
DoLongestPrefix(w) ==
    /\ result' = longestPrefix(w)
    /\ prev' = root
    /\ lastOp' = "longestPrefix"
    /\ lastWord' = w
    /\ repeated' = FALSE
    /\ UNCHANGED <<root, nops>>
    /\ UNCHANGED tvars

\* Trie.insert(w)
DoTrieInsert(w) ==
    /\ tnops < TrieMaxOps
    /\ troot' = Trie_insert(troot, w)
    /\ inserted' = inserted \cup {w}
    /\ tlastOp' = "insert"
    /\ tword' = w
    /\ tresult' = <<>>
    /\ tnops' = tnops + 1
    /\ UNCHANGED rvars

\* Trie.keys_with_prefix(p)
DoKeysWithPrefix(p) ==
    /\ tresult' = keys_with_prefix(troot, p)
    /\ tlastOp' = "keys_with_prefix"
    /\ tword' = p
    /\ UNCHANGED <<troot, inserted, tnops>>
    /\ UNCHANGED rvars

\* the mutating calls of the radix trie
Next == \E w \in Words : DoInsert(w) \/ DoRemove(w)

Spec == Init /\ [][Next]_vars

\* the mutating calls and the lookups of the radix trie
NextQuery ==
    \E w \in QueryWords :
        \/ nops < QueryMaxOps /\ (DoInsert(w) \/ DoRemove(w))
        \/ DoSearch(w) \/ DoLongestPrefix(w) \/ DoSearchNodeWithPrefix(w)

SpecQuery == Init /\ [][NextQuery]_vars

\* the plain trie
NextTrie == \E w \in TrieWords : DoTrieInsert(w) \/ DoKeysWithPrefix(w)

SpecTrie == Init /\ [][NextTrie]_vars

(***************************************************************************)
(* Vocabulary of the properties.                                           *)
(***************************************************************************)
Range(seq) == {seq[i] : i \in 1..Len(seq)}

IsPrefix(p, w) == Len(p) <= Len(w) /\ SubSeq(w, 1, Len(p)) = p

Edges(node) == {node.children[k] : k \in DOMAIN node.children}

\* the words spelled by the paths from node to the key nodes below it
RECURSIVE Keys(_)
Keys(node) ==
    (IF node.key_node THEN {<<>>} ELSE {})
    \cup UNION {{e.label \o k : k \in Keys(e.destination)} : e \in Edges(node)}

\* the strings spelled by the paths from node to the nodes below it
RECURSIVE RootPaths(_)
RootPaths(node) ==
    {<<>>}
    \cup UNION {{e.label \o p : p \in RootPaths(e.destination)} :
                  e \in Edges(node)}

\* the number of nodes of the subtree of node
RECURSIVE NodeCount(_)
RECURSIVE SumCounts(_)
SumCounts(edges) ==
    IF edges = {} THEN 0
    ELSE LET e == CHOOSE x \in edges : TRUE
         IN  NodeCount(e.destination) + SumCounts(edges \ {e})

NodeCount(node) == 1 + SumCounts(Edges(node))

\* no node below node is a non-key node with exactly one child
RECURSIVE NoPassThroughBelow(_)
NoPassThroughBelow(node) ==
    \A e \in Edges(node) :
        /\ ~(e.destination.key_node = FALSE
             /\ Cardinality(DOMAIN e.destination.children) = 1)
        /\ NoPassThroughBelow(e.destination)

\* the trie after inserting the words of seq, in order, into a fresh trie
RECURSIVE InsertAllFrom(_, _)
InsertAllFrom(node, seq) ==
    IF seq = <<>> THEN node
    ELSE InsertAllFrom(insert(node, Head(seq)), Tail(seq))

InsertAll(seq) == InsertAllFrom(NewRoot, seq)

\* the orders in which a set of at most n words can be inserted
InsertOrders(n) ==
    UNION {{seq \in [1..k -> Words] :
              \A i, j \in 1..k : i # j => seq[i] # seq[j]} : k \in 0..n}

Without(seq, w) == SelectSeq(seq, LAMBDA x : x # w)

\* insert(node, word) splits an edge on its way down
RECURSIVE Splits(_, _)
Splits(node, word) ==
    IF word = <<>> THEN FALSE
    ELSE LET m == _matchEdge(node, word)
         IN  IF ~m.found THEN FALSE
             ELSE IF m.edge_suffix = <<>>
             THEN Splits(EdgeOf(m).destination, m.word_suffix)
             ELSE TRUE

\* where insert(before, word) splits an edge, the bridge of after has an
\* edge labelled with the edge suffix whose destination equals the
\* destination of the edge that was split
RECURSIVE SplitKeepsSubtree(_, _, _)
SplitKeepsSubtree(before, after, word) ==
    IF word = <<>> THEN TRUE
    ELSE LET m == _matchEdge(before, word)
             c == First(word)
         IN  IF ~m.found THEN TRUE
             ELSE IF m.edge_suffix = <<>>
             THEN SplitKeepsSubtree(EdgeOf(m).destination,
                                    after.children[c].destination,
                                    m.word_suffix)
             ELSE LET bridge == after.children[c].destination
                      d == First(m.edge_suffix)
                  IN  /\ d \in DOMAIN bridge.children
                      /\ bridge.children[d].label = m.edge_suffix
                      /\ bridge.children[d].destination
                            = EdgeOf(m).destination

\* the concatenation of the labels of the edges that word fully matches
RECURSIVE ConsumedLabels(_, _)
ConsumedLabels(node, word) ==
    IF word = <<>> THEN <<>>
    ELSE LET m == _matchEdge(node, word)
         IN  IF m.found /\ m.edge_suffix = <<>>
             THEN EdgeOf(m).label
                  \o ConsumedLabels(EdgeOf(m).destination, m.word_suffix)
             ELSE <<>>

(***************************************************************************)
(* The claims.                                                             *)
(***************************************************************************)
\* C1: round trip.  When the trie is the one obtained by inserting the
\* words of a set W one by one, in some order, into a fresh trie, then
\* search(root, w) returns true for w in W and false for every other word.
C1_RoundTrip ==
    lastOp = "search" =>
        \A seq \in InsertOrders(MaxOps) :
            root = InsertAll(seq) =>
                result = BoolStr(lastWord \in Range(seq))

\* C2: compression invariant.  In every state reached by insert and
\* remove calls no node other than the root is a non-key node with exactly
\* one child.
C2_Compression == NoPassThroughBelow(root)

\* C3: insert/remove inverse.  When remove(root, w) is called on the trie
\* obtained by inserting the words of a set W that holds w, search(root, w)
\* is false afterwards and the trie equals the one obtained by inserting
\* only the other words of W.
C3_InsertRemoveInverse ==
    lastOp = "remove" =>
        \A seq \in InsertOrders(MaxOps) :
            (prev = InsertAll(seq) /\ lastWord \in Range(seq)) =>
                /\ search(root, lastWord).outcome = "False"
                /\ root = InsertAll(Without(seq, lastWord))

\* C4: remove(root, w) of a stored word w removes only w: the words
\* spelled by the root-to-key-node paths after the call are those before
\* the call other than w.
C4_RemoveOnlyThatWord ==
    (lastOp = "remove" /\ lastWord \in Keys(prev)) =>
        Keys(root) = Keys(prev) \ {lastWord}

\* a stored word that is a prefix of another stored word was removed and
\* the node it ended at was merged away
C4_Witness ==
    /\ lastOp = "remove"
    /\ lastWord \in Keys(prev)
    /\ \E w \in Keys(root) : IsPrefix(lastWord, w)
    /\ NodeCount(root) < NodeCount(prev)

\* C5: remove(root, w) of a word w that is not stored returns
\* deleted = false and leaves the trie unchanged.
C5_RemoveAbsentNoOp ==
    (lastOp = "remove" /\ lastWord \notin Keys(prev)) =>
        (result.deleted = FALSE /\ root = prev)

\* C6: idempotence of insert.  An insert(root, w) made immediately after
\* an insert(root, w) leaves the trie, and with it the set of key nodes
\* and every search result, unchanged.
C6_InsertIdempotent ==
    repeated => (root = prev /\ Keys(root) = Keys(prev))

\* a word of more than one character was inserted twice into a trie that
\* holds other words
C6_Witness ==
    /\ repeated
    /\ Len(lastWord) >= 2
    /\ NodeCount(root) >= 3
    /\ lastWord \in Keys(root)

\* C7: search(root, word) completes with a boolean, false when the word is
\* not stored, and never ends in an error.
C7_SearchNeverFails ==
    lastOp = "search" =>
        /\ result \in {"True", "False"}
        /\ (lastWord \notin Keys(root) => result = "False")

\* C8: keys_with_prefix(p) of the plain trie returns a list that holds
\* exactly the inserted words that start with p, each once (the empty list
\* when there is none).
C8_KeysWithPrefixComplete ==
    tlastOp = "keys_with_prefix" =>
        /\ Range(tresult) = {w \in inserted : IsPrefix(tword, w)}
        /\ Len(tresult) = Cardinality(Range(tresult))

\* a non-empty prefix that selects two of the inserted words and leaves
\* another one out
C8_Witness ==
    /\ tlastOp = "keys_with_prefix"
    /\ tword # <<>>
    /\ Len(tresult) >= 2
    /\ \E w \in inserted : ~IsPrefix(tword, w)

\* C9: longestPrefix(word) returns the concatenation of the labels of the
\* edges that word fully matches on its walk from the root, which is a
\* prefix of word spelled by a root path of the trie.
C9_LongestPrefixWalks ==
    lastOp = "longestPrefix" =>
        /\ result = ConsumedLabels(root, lastWord)
        /\ IsPrefix(result, lastWord)
        /\ result \in RootPaths(root)

\* C10: when insert splits an edge, the node under the bridge at the edge
\* suffix has the key status and the children of the destination of the
\* edge that was split, so every word stored before is stored after.
C10_SplitKeepsSubtree ==
    (lastOp = "insert" /\ Splits(prev, lastWord)) =>
        /\ SplitKeepsSubtree(prev, root, lastWord)
        /\ Keys(prev) \subseteq Keys(root)

\* every edge below node has a non-empty label and is stored under the key
\* that is the first character of its label
RECURSIVE BranchingBelow(_)
BranchingBelow(node) ==
    \A k \in DOMAIN node.children :
        /\ node.children[k].label # <<>>
        /\ k = First(node.children[k].label)
        /\ BranchingBelow(node.children[k].destination)

\* the labels of the edges below node
RECURSIVE Labels(_)
Labels(node) ==
    UNION {{e.label} \cup Labels(e.destination) : e \in Edges(node)}

\* C11: branching invariant.  In every state reached by insert and remove
\* calls every edge has a non-empty label and is stored in its parent's
\* children under the first character of that label, the edges made by a
\* split and by a merge included.
C11_Branching == BranchingBelow(root)

\* a remove has merged two edges whose labels start with different
\* characters into one edge
C11_Witness ==
    /\ lastOp = "remove"
    /\ NodeCount(root) < NodeCount(prev)
    /\ \E l \in Labels(root) \ Labels(prev) :
          Len(l) >= 2 /\ l[1] # l[Len(l)]

\* the nodes of the subtree of node, each with the string its path from
\* node spells
RECURSIVE PathNodes(_)
PathNodes(node) ==
    {[path |-> <<>>, node |-> node]}
    \cup UNION {{[path |-> e.label \o pn.path, node |-> pn.node] :
                    pn \in PathNodes(e.destination)} : e \in Edges(node)}

\* the nodes whose root path has p as a prefix
NodesUnder(p) == {pn \in PathNodes(root) : IsPrefix(p, pn.path)}

\* C12: searchNodeWithPrefix(root, p) returns none exactly when no root
\* path spells a string that has p as a prefix; otherwise it returns the
\* shallowest node whose root path has p as a prefix.
C12_PrefixNode ==
    lastOp = "searchNodeWithPrefix" =>
        /\ result.found = (NodesUnder(lastWord) # {})
        /\ result.found =>
              \E pn \in NodesUnder(lastWord) :
                  /\ \A q \in NodesUnder(lastWord) \ {pn} :
                        Len(pn.path) < Len(q.path)
                  /\ result.dests = {pn.node}
        /\ (lastWord = <<>> => result.dests = {root})

\* the prefix ended inside an edge below a node that has two edges, and the
\* destination of that edge was returned
C12_Witness ==
    /\ lastOp = "searchNodeWithPrefix"
    /\ result.found
    /\ lastWord # <<>>
    /\ lastWord \notin RootPaths(root)
    /\ Cardinality(DOMAIN root.children) = 2

\* C13: root key flag.  On a fresh trie root.key_node is false and
\* search(root, "") is false; insert(root, "") sets root.key_node and
\* remove(root, "") clears it; an insert or remove of a non-empty word
\* leaves it as it was.  Hence root.key_node tells whether the last call on
\* "" was an insert, that is whether "" is stored.
C13_RootKeyFlag ==
    /\ lastOp = "init" =>
          (root.key_node = FALSE /\ search(root, <<>>).outcome = "False")
    /\ (lastOp = "insert" /\ lastWord = <<>>) => root.key_node = TRUE
    /\ (lastOp = "remove" /\ lastWord = <<>>) => root.key_node = FALSE
    /\ (lastOp \in {"insert", "remove"} /\ lastWord # <<>>) =>
          root.key_node = prev.key_node

\* a stored non-empty word was removed from a trie that stores ""
C13_Witness ==
    /\ lastOp = "remove"
    /\ lastWord # <<>>
    /\ result.deleted
    /\ prev.key_node
    /\ root.key_node

\* C14: search and searchNodeWithPrefix are read-only: the trie is after
\* the call what it was before it.
C14_LookupsReadOnly ==
    lastOp \in {"search", "searchNodeWithPrefix"} => root = prev

\* a search that went down two edges and found its word
C14_Witness ==
    /\ lastOp = "search"
    /\ result = "True"
    /\ Len(lastWord) >= 2
    /\ lastWord \notin {e.label : e \in Edges(root)}

\* every recursive call that insert(node, word) makes is made with a
\* shorter word, behind a non-empty common prefix; search, remove and
\* searchNodeWithPrefix recurse only where insert does, on a fully matched
\* edge, with the same word suffix
RECURSIVE CallsShrink(_, _)
CallsShrink(node, word) ==
    IF word = <<>> THEN TRUE
    ELSE LET m == _matchEdge(node, word)
         IN  IF ~m.found THEN TRUE
             ELSE /\ m.prefix # <<>>
                  /\ Len(m.word_suffix) < Len(word)
                  /\ IF m.edge_suffix = <<>>
                     THEN CallsShrink(EdgeOf(m).destination, m.word_suffix)
                     ELSE CallsShrink(Bridge(m.edge_suffix), m.word_suffix)

\* the number of calls insert(node, word) makes, itself included
RECURSIVE CallDepth(_, _)
CallDepth(node, word) ==
    IF word = <<>> THEN 1
    ELSE LET m == _matchEdge(node, word)
         IN  IF ~m.found THEN 1
             ELSE IF m.edge_suffix = <<>>
             THEN 1 + CallDepth(EdgeOf(m).destination, m.word_suffix)
             ELSE 1 + CallDepth(Bridge(m.edge_suffix), m.word_suffix)

\* C15: termination.  In every call of insert and remove made on a
\* reachable trie, each recursive call is made with a strictly shorter
\* remaining word, the common prefix of a found edge being non-empty, the
\* split case included; the recursion is at most Len(word) + 1 calls deep.
C15_CallsShrink ==
    lastOp \in {"insert", "remove"} =>
        /\ CallsShrink(prev, lastWord)
        /\ CallDepth(prev, lastWord) <= Len(lastWord) + 1

\* an insert that went down a fully matched edge and then split an edge
C15_Witness ==
    /\ lastOp = "insert"
    /\ Splits(prev, lastWord)
    /\ CallDepth(prev, lastWord) >= 3

\* every node below node that has no children is a key node
RECURSIVE NoDeadLeafBelow(_)
NoDeadLeafBelow(node) ==
    \A e \in Edges(node) :
        /\ (e.destination.children = EmptyDict => e.destination.key_node)
        /\ NoDeadLeafBelow(e.destination)

\* C16: no dead leaves.  In every state reached by insert and remove calls
\* every node other than the root that has no children is a key node.
C16_NoDeadLeaves == NoDeadLeafBelow(root)

\* C17: insertion order does not matter.  When the trie is the one
\* obtained by inserting the words of a set W in some order into a fresh
\* trie, inserting them in any other order gives the same trie and the
\* same search result for every word.
C17_OrderIndependent ==
    \A seq \in InsertOrders(MaxOps) :
        root = InsertAll(seq) =>
            \A other \in InsertOrders(MaxOps) :
                Range(other) = Range(seq) =>
                    /\ InsertAll(other) = root
                    /\ \A w \in Words :
                          search(InsertAll(other), w).outcome
                             = search(root, w).outcome

====
